---- MODULE Spec2Model ----
(***************************************************************************)
(* Model of raiden_installer/token_exchange.py: the Exchange base class    *)
(* and its two adapters, Kyber and Uniswap.                                *)
(*                                                                         *)
(* Amounts (TokenAmount, EthereumAmount) are held as an integer count of   *)
(* smallest units; `.value` is that count divided by Unit, so a product of *)
(* two values is Mul and a quotient of two values is Div, both cut to the  *)
(* smallest unit.  A Python call that raises is modelled by an outcome     *)
(* that names the exception.                                               *)
(***************************************************************************)
EXTENDS Integers, Sequences, FiniteSets, TLC

VARIABLES
    network,        \* self.network.name of the bound chain client
    expected_rate,  \* first component of getExpectedRate(...).call()
    slippage_rate,  \* second component of getExpectedRate(...).call()
    output_price,   \* getEthToTokenOutputPrice(...).call()
    gasPrice,       \* w3.eth.gasPrice
    maxGasPrice,    \* network_contract_proxy.functions.maxGasPrice().call()
    call            \* the public call that returned last, with its outcome

vars == <<network, expected_rate, slippage_rate, output_price, gasPrice,
          maxGasPrice, call>>

(***************************************************************************)
(* Bounds of the model.                                                    *)
(***************************************************************************)
MaxTokens == 0
MaxPrice == 1
MaxGasPrice == 2
MaxGas == 2
MaxTime == 1

(***************************************************************************)
(* Amount types.                                                           *)
(***************************************************************************)
Unit == 10

Mul(a, b) == (a * b) \div Unit

Div(a, b) == (a * Unit) \div b

Max(a, b) == IF a >= b THEN a ELSE b

Min(a, b) == IF a <= b THEN a ELSE b

(***************************************************************************)
(* Inputs.                                                                 *)
(***************************************************************************)
Networks == {"mainnet", "ropsten", "kovan", "goerli"}

Tickers == {"RDN", "SAI", "XYZ"}

\* Whole tokens a caller asks for, and the same in smallest units (as_wei).
Tokens == (-1 .. MaxTokens) \cup {3, 100}

Quantities == {t * Unit : t \in Tokens}

PositiveQuantities == {q \in Quantities : q > 0}

Rates == {0, 5, 7}

Prices == (0 .. MaxPrice) \cup {10}

GasPrices == 1 .. MaxGasPrice

GasEstimates == 1 .. MaxGas

Timestamps == 0 .. MaxTime

(***************************************************************************)
(* Static tables.                                                          *)
(***************************************************************************)
SUPPORTED_NETWORKS == {"ropsten", "mainnet"}

EXCHANGE_TIMEOUT == 20 * 60

RAIDEN_EXCHANGE_ADDRESSES == [n \in {"mainnet"} |-> "0x7D03"]

SAI_EXCHANGE_ADDRESSES ==
    [n \in {"kovan", "rinkeby"} |-> IF n = "kovan" THEN "0x8779" ELSE "0x77dB"]

KyberTokenAddresses ==
    [n \in {"mainnet", "ropsten", "kovan"} |->
        [t \in {"ETH", "RDN", "SAI"} |-> "0xK" \o t]]

None == "None"

\* kyber_tokens.get_token_network_address(chain_id, ticker)
kyber_tokens_get_token_network_address(net, ticker) ==
    IF net \in DOMAIN KyberTokenAddresses
       /\ ticker \in DOMAIN KyberTokenAddresses[net]
    THEN KyberTokenAddresses[net][ticker]
    ELSE "KeyError"

(***************************************************************************)
(* Kyber adapter.                                                          *)
(***************************************************************************)
Kyber_get_token_network_address(ticker) ==
    LET token_network_address ==
            kyber_tokens_get_token_network_address(network, ticker)
    IN  IF token_network_address = "KeyError" THEN None
        ELSE IF token_network_address = "" THEN None
        ELSE token_network_address

Kyber_is_listing_token(ticker) ==
    Kyber_get_token_network_address(ticker) # None

Kyber_rate_min(expected, slippage) == Min(expected, slippage)

\* The rate returned for a pair reported by getExpectedRate (line 108).
Kyber_rate(expected, slippage) == Max(expected, slippage)

\* The liquidity test of line 105.
Kyber_no_liquidity(expected, slippage) == expected = 0 \/ slippage = 0

Kyber_get_current_rate(ticker, qty) ==
    LET eth_address == kyber_tokens_get_token_network_address(network, "ETH")
        token_network_address ==
            kyber_tokens_get_token_network_address(network, ticker)
    IN  IF eth_address = "KeyError" \/ token_network_address = "KeyError"
        THEN [outcome |-> "KeyError", value |-> <<>>, calls |-> <<>>]
        ELSE IF Kyber_no_liquidity(expected_rate, slippage_rate)
        THEN [outcome |-> "ExchangeError", value |-> <<>>,
              calls |-> <<"getExpectedRate">>]
        ELSE [outcome |-> "rate",
              value |-> <<Kyber_rate(expected_rate, slippage_rate)>>,
              calls |-> <<"getExpectedRate">>]

Kyber_gas_price_node(node_price, protocol_max) == node_price

\* The gas price of lines 113-116.
Kyber_gas_price(node_price, protocol_max) == Min(node_price, protocol_max)

CostEstimate_no_gas_cost(gas_price, gas, eth_sold, exchange_rate) ==
    [gas_price |-> gas_price,
     gas |-> gas,
     eth_sold |-> eth_sold,
     total |-> gas + eth_sold,
     exchange_rate |-> exchange_rate]

\* The estimate of lines 129-137 and 225-233.
CostEstimate(gas_price, gas, eth_sold, exchange_rate) ==
    [gas_price |-> gas_price,
     gas |-> gas,
     eth_sold |-> eth_sold,
     total |-> gas * gas_price + eth_sold,
     exchange_rate |-> exchange_rate]

Kyber__calculate_transaction_costs(ticker, qty, gas) ==
    LET r == Kyber_get_current_rate(ticker, qty)
    IN  IF r.outcome # "rate"
        THEN [outcome |-> r.outcome, costs |-> <<>>, calls |-> r.calls]
        ELSE LET exchange_rate == r.value[1]
                 eth_sold == Mul(qty, exchange_rate)
                 gas_price == Kyber_gas_price(gasPrice, maxGasPrice)
             IN  [outcome |-> "costs",
                  costs |-> <<CostEstimate(gas_price, gas, eth_sold,
                                           exchange_rate)>>,
                  calls |-> r.calls \o <<"maxGasPrice", "estimate_gas">>]

(***************************************************************************)
(* Uniswap adapter.                                                        *)
(***************************************************************************)
Uniswap__get_exchange_address(token_ticker) ==
    LET exchanges == [t \in {"RDN", "SAI"} |->
                        IF t = "RDN" THEN RAIDEN_EXCHANGE_ADDRESSES
                                     ELSE SAI_EXCHANGE_ADDRESSES]
    IN  IF token_ticker \in DOMAIN exchanges
           /\ network \in DOMAIN exchanges[token_ticker]
        THEN exchanges[token_ticker][network]
        ELSE "ExchangeError"

Uniswap__get_exchange_proxy(token_ticker) ==
    IF Uniswap__get_exchange_address(token_ticker) = "ExchangeError"
    THEN None
    ELSE Uniswap__get_exchange_address(token_ticker)

Uniswap_is_listing_token(ticker) ==
    Uniswap__get_exchange_address(ticker) # "ExchangeError"

\* The rate returned for a reported price (line 268).
Uniswap_rate(eth_to_sell, qty) == Div(eth_to_sell, qty)

Uniswap_get_current_rate(ticker, qty) ==
    LET exchange_proxy == Uniswap__get_exchange_proxy(ticker)
    IN  IF exchange_proxy = None
        THEN [outcome |-> "AttributeError", value |-> <<>>, calls |-> <<>>]
        ELSE [outcome |-> "rate",
              value |-> <<Uniswap_rate(output_price, qty)>>,
              calls |-> <<"getEthToTokenOutputPrice">>]

Uniswap__calculate_transaction_costs(ticker, qty, gas) ==
    LET r == Uniswap_get_current_rate(ticker, qty)
    IN  IF r.outcome # "rate"
        THEN [outcome |-> r.outcome, costs |-> <<>>, calls |-> r.calls]
        ELSE LET exchange_rate == r.value[1]
                 eth_sold == Mul(qty, exchange_rate)
             IN  [outcome |-> "costs",
                  costs |-> <<CostEstimate(gasPrice, gas, eth_sold,
                                           exchange_rate)>>,
                  calls |-> r.calls \o <<"getBlock", "estimate_gas">>]

(***************************************************************************)
(* Exchange base class.                                                    *)
(***************************************************************************)
is_listing_token(exchange, ticker) ==
    IF exchange = "Kyber" THEN Kyber_is_listing_token(ticker)
                          ELSE Uniswap_is_listing_token(ticker)

get_current_rate(exchange, ticker, qty) ==
    IF exchange = "Kyber" THEN Kyber_get_current_rate(ticker, qty)
                          ELSE Uniswap_get_current_rate(ticker, qty)

_calculate_transaction_costs(exchange, ticker, qty, gas) ==
    IF exchange = "Kyber"
    THEN Kyber__calculate_transaction_costs(ticker, qty, gas)
    ELSE Uniswap__calculate_transaction_costs(ticker, qty, gas)

not_applicable_quantity(listed, as_wei) == as_wei <= 0

\* The guard of line 51.
not_applicable(listed, as_wei) == ~listed \/ as_wei <= 0

calculate_transaction_costs(exchange, ticker, qty, gas) ==
    IF not_applicable(is_listing_token(exchange, ticker), qty)
    THEN [outcome |-> "None", costs |-> <<>>, calls |-> <<"is_listing_token">>]
    ELSE LET c == _calculate_transaction_costs(exchange, ticker, qty, gas)
         IN  [c EXCEPT !.calls = <<"is_listing_token">> \o @]

(***************************************************************************)
(* The public calls.  A call is blocking and is taken as one step; its     *)
(* record keeps the arguments, the outcome (a returned value or the name   *)
(* of the exception raised), the collaborators called in order and the     *)
(* transaction handed to send_raw_transaction, if any.                     *)
(***************************************************************************)
Idle ==
    [op |-> "none", exchange |-> "none", ticker |-> "none", qty |-> 0,
     outcome |-> "none", value |-> <<>>, costs |-> <<>>, calls |-> <<>>,
     tx |-> <<>>]

Returned(op, exchange, ticker, qty, outcome, value, costs, calls, tx) ==
    [op |-> op, exchange |-> exchange, ticker |-> ticker, qty |-> qty,
     outcome |-> outcome, value |-> value, costs |-> costs, calls |-> calls,
     tx |-> tx]

Init ==
    /\ network \in Networks
    /\ expected_rate \in Rates
    /\ slippage_rate \in Rates
    /\ output_price \in Prices
    /\ gasPrice \in GasPrices
    /\ maxGasPrice \in GasPrices
    /\ call = Idle

IsListingToken ==
    \E exchange \in {"Kyber", "Uniswap"}, ticker \in Tickers :
        /\ call' = Returned("is_listing_token", exchange, ticker, 0,
                            IF is_listing_token(exchange, ticker)
                            THEN "True" ELSE "False",
                            <<>>, <<>>, <<>>, <<>>)
        /\ UNCHANGED <<network, expected_rate, slippage_rate, output_price,
                       gasPrice, maxGasPrice>>

GetCurrentRate ==
    \E exchange \in {"Kyber", "Uniswap"}, ticker \in Tickers,
       qty \in PositiveQuantities :
        LET r == get_current_rate(exchange, ticker, qty)
        IN  /\ call' = Returned("get_current_rate", exchange, ticker, qty,
                                r.outcome, r.value, <<>>, r.calls, <<>>)
            /\ UNCHANGED <<network, expected_rate, slippage_rate,
                           output_price, gasPrice, maxGasPrice>>

CalculateTransactionCosts ==
    \E exchange \in {"Kyber", "Uniswap"}, ticker \in Tickers,
       qty \in Quantities, gas \in GasEstimates :
        LET c == calculate_transaction_costs(exchange, ticker, qty, gas)
        IN  /\ call' = Returned("calculate_transaction_costs", exchange,
                                ticker, qty, c.outcome, <<>>, c.costs,
                                c.calls, <<>>)
            /\ UNCHANGED <<network, expected_rate, slippage_rate,
                           output_price, gasPrice, maxGasPrice>>

transaction_costs_unchecked(exchange, ticker, qty, gas) ==
    IF qty <= 0
    THEN [outcome |-> "None", costs |-> <<>>, calls |-> <<>>]
    ELSE _calculate_transaction_costs(exchange, ticker, qty, gas)

\* The estimate a buy works from (lines 145 and 236).
transaction_costs(exchange, ticker, qty, gas) ==
    calculate_transaction_costs(exchange, ticker, qty, gas)

Kyber_network_any == TRUE

\* Lines 140-143.
Kyber_network_supported == network \in SUPPORTED_NETWORKS

\* Lines 149-159.
Kyber_transaction_params(costs) ==
    [gas_price |-> costs.gas_price, gas |-> costs.gas,
     value |-> costs.eth_sold]

Uniswap_transaction_params_as_kyber(costs) ==
    [gas_price |-> costs.gas_price, gas |-> costs.gas,
     value |-> costs.eth_sold]

\* Lines 244-251.
Uniswap_transaction_params(costs) ==
    [gas_price |-> costs.gas_price, gas |-> 2 * costs.gas,
     value |-> costs.total]

\* Lines 146-147 and 238-239, then the submission.
Submit(op_exchange, ticker, qty, c, function, args, params) ==
    IF c.outcome = "None"
    THEN Returned("buy_tokens", op_exchange, ticker, qty, "ExchangeError",
                  <<>>, <<>>, c.calls, <<>>)
    ELSE IF c.outcome # "costs"
    THEN Returned("buy_tokens", op_exchange, ticker, qty, c.outcome,
                  <<>>, <<>>, c.calls, <<>>)
    ELSE Returned("buy_tokens", op_exchange, ticker, qty, "sent",
                  <<>>, c.costs, c.calls \o <<"send_raw_transaction">>,
                  <<[function |-> function, args |-> args,
                     gas_price |-> params.gas_price, gas |-> params.gas,
                     value |-> params.value]>>)

KyberBuyTokens ==
    \E ticker \in Tickers, qty \in Quantities, gas \in GasEstimates :
        /\ call' =
            IF ~Kyber_network_supported
            THEN Returned("buy_tokens", "Kyber", ticker, qty,
                          "ExchangeError", <<>>, <<>>, <<>>, <<>>)
            ELSE LET c == transaction_costs("Kyber", ticker, qty, gas)
                 IN  Submit("Kyber", ticker, qty, c, "swapEtherToToken",
                            IF c.outcome = "costs"
                            THEN <<Kyber_get_token_network_address(ticker),
                                   c.costs[1].exchange_rate>>
                            ELSE <<>>,
                            IF c.outcome = "costs"
                            THEN Kyber_transaction_params(c.costs[1])
                            ELSE [gas_price |-> 0, gas |-> 0, value |-> 0])
        /\ UNCHANGED <<network, expected_rate, slippage_rate, output_price,
                       gasPrice, maxGasPrice>>

UniswapBuyTokens ==
    \E ticker \in Tickers, qty \in Quantities, gas \in GasEstimates,
       latest_block \in Timestamps :
        /\ call' =
            LET c == transaction_costs("Uniswap", ticker, qty, gas)
                deadline == latest_block + EXCHANGE_TIMEOUT
            IN  Submit("Uniswap", ticker, qty, c, "ethToTokenSwapOutput",
                       <<qty, deadline>>,
                       IF c.outcome = "costs"
                       THEN Uniswap_transaction_params(c.costs[1])
                       ELSE [gas_price |-> 0, gas |-> 0, value |-> 0])
        /\ UNCHANGED <<network, expected_rate, slippage_rate, output_price,
                       gasPrice, maxGasPrice>>

\* Between two calls the chain moves: a rate, a price or a gas price changes.
ChainMoves ==
    /\ \/ expected_rate' \in Rates
          /\ UNCHANGED <<slippage_rate, output_price, gasPrice, maxGasPrice>>
       \/ slippage_rate' \in Rates
          /\ UNCHANGED <<expected_rate, output_price, gasPrice, maxGasPrice>>
       \/ output_price' \in Prices
          /\ UNCHANGED <<expected_rate, slippage_rate, gasPrice, maxGasPrice>>
       \/ gasPrice' \in GasPrices
          /\ UNCHANGED <<expected_rate, slippage_rate, output_price,
                         maxGasPrice>>
       \/ maxGasPrice' \in GasPrices
          /\ UNCHANGED <<expected_rate, slippage_rate, output_price, gasPrice>>
    /\ call' = Idle
    /\ UNCHANGED network

Next ==
    \/ IsListingToken
    \/ GetCurrentRate
    \/ CalculateTransactionCosts
    \/ KyberBuyTokens
    \/ UniswapBuyTokens
    \/ ChainMoves

Spec == Init /\ [][Next]_vars

(***************************************************************************)
(* Properties.                                                             *)
(***************************************************************************)
Estimate == call.costs[1]

Sent == call.tx[1]

Before(a, b, calls) ==
    \E i, j \in 1 .. Len(calls) : i < j /\ calls[i] = a /\ calls[j] = b

RateLookup(exchange) ==
    IF exchange = "Kyber" THEN "getExpectedRate" ELSE "getEthToTokenOutputPrice"

\* C1: calculate_transaction_costs returns None, having called no rate
\* lookup, no gas estimate and no submission, when the ticker is not listed
\* or the quantity is <= 0, whatever the listing status.
C1_NotApplicableIsNone ==
    (/\ call.op = "calculate_transaction_costs"
     /\ \/ ~is_listing_token(call.exchange, call.ticker)
        \/ call.qty <= 0)
    => /\ call.outcome = "None"
       /\ call.costs = <<>>
       /\ call.calls = <<"is_listing_token">>
       /\ call.tx = <<>>

C1_Witness ==
    /\ call.op = "calculate_transaction_costs"
    /\ is_listing_token(call.exchange, call.ticker)
    /\ call.qty <= 0
    /\ call.outcome = "None"

\* C2: a buy that submits has, in that call and in this order, checked the
\* listing, looked the rate up and estimated the gas before it submits; the
\* rate of its estimate is the one the chain reports during the call, and
\* the submitted gas price, gas limit, value and rate argument come from
\* that estimate.  A buy whose estimate is None raises ExchangeError and
\* submits nothing.
C2_BuyRederivesCosts ==
    /\ (call.op = "buy_tokens" /\ call.outcome = "sent")
       => /\ call.calls[1] = "is_listing_token"
          /\ Before("is_listing_token", RateLookup(call.exchange), call.calls)
          /\ Before(RateLookup(call.exchange), "estimate_gas", call.calls)
          /\ Before("estimate_gas", "send_raw_transaction", call.calls)
          /\ call.calls[Len(call.calls)] = "send_raw_transaction"
          /\ Len(call.costs) = 1
          /\ Len(call.tx) = 1
          /\ Sent.gas_price = Estimate.gas_price
          /\ Sent.gas \in {Estimate.gas, 2 * Estimate.gas}
          /\ Sent.value \in {Estimate.eth_sold, Estimate.total}
          /\ call.exchange = "Kyber"
             => /\ Estimate.exchange_rate \in {expected_rate, slippage_rate}
                /\ Estimate.exchange_rate >= expected_rate
                /\ Estimate.exchange_rate >= slippage_rate
                /\ Sent.args[2] = Estimate.exchange_rate
          /\ call.exchange = "Uniswap"
             => /\ Estimate.exchange_rate = (output_price * Unit) \div call.qty
                /\ Sent.value >= (call.qty * Estimate.exchange_rate) \div Unit
    /\ (/\ call.op = "buy_tokens"
        /\ call.exchange = "Kyber" => network \in {"ropsten", "mainnet"}
        /\ \/ ~is_listing_token(call.exchange, call.ticker)
           \/ call.qty <= 0)
       => /\ call.outcome = "ExchangeError"
          /\ call.tx = <<>>
          /\ "send_raw_transaction" \notin {call.calls[i] : i \in DOMAIN call.calls}

C2_Witness ==
    /\ call.op = "buy_tokens"
    /\ call.outcome = "sent"
    /\ call.exchange = "Kyber"
    /\ expected_rate # slippage_rate
    /\ Sent.args[2] = slippage_rate

\* C3: Kyber.buy_tokens on a network outside {ropsten, mainnet} raises
\* ExchangeError and calls neither a rate lookup, nor a gas estimate, nor
\* send_raw_transaction, for every ticker and quantity.
C3_KyberUnsupportedNetwork ==
    (/\ call.op = "buy_tokens"
     /\ call.exchange = "Kyber"
     /\ network \notin {"ropsten", "mainnet"})
    => /\ call.outcome = "ExchangeError"
       /\ call.calls = <<>>
       /\ call.tx = <<>>

C3_Witness ==
    /\ call.op = "buy_tokens"
    /\ call.exchange = "Kyber"
    /\ network = "kovan"
    /\ Kyber_is_listing_token(call.ticker)
    /\ call.qty > 0
    /\ expected_rate # 0
    /\ slippage_rate # 0
    /\ call.outcome = "ExchangeError"

\* C4: Uniswap.buy_tokens submits twice the estimated gas limit and the
\* estimate's full total (gas * gas_price + eth_sold) as value;
\* Kyber.buy_tokens submits the estimated gas and eth_sold as value.
C4_SubmittedGasAndValue ==
    (call.op = "buy_tokens" /\ call.outcome = "sent")
    => /\ call.exchange = "Uniswap"
          => /\ Sent.gas = 2 * Estimate.gas
             /\ Sent.value = Estimate.gas * Estimate.gas_price
                             + Estimate.eth_sold
             /\ Sent.value = Estimate.total
       /\ call.exchange = "Kyber"
          => /\ Sent.gas = Estimate.gas
             /\ Sent.value = Estimate.eth_sold

C4_Witness ==
    /\ call.op = "buy_tokens"
    /\ call.outcome = "sent"
    /\ call.exchange = "Uniswap"
    /\ Estimate.eth_sold > 0
    /\ Sent.value > Estimate.eth_sold
    /\ Sent.gas = 4

\* C5: Kyber.get_current_rate, for every pair the proxy reports, raises
\* ExchangeError if either rate is 0 and otherwise returns the larger of
\* the two.
C5_KyberRateIsMax ==
    (/\ call.op = "get_current_rate"
     /\ call.exchange = "Kyber"
     /\ call.calls = <<"getExpectedRate">>)
    => IF expected_rate = 0 \/ slippage_rate = 0
       THEN call.outcome = "ExchangeError" /\ call.value = <<>>
       ELSE /\ call.outcome = "rate"
            /\ Len(call.value) = 1
            /\ call.value[1] \in {expected_rate, slippage_rate}
            /\ call.value[1] >= expected_rate
            /\ call.value[1] >= slippage_rate

C5_Witness ==
    /\ call.op = "get_current_rate"
    /\ call.exchange = "Kyber"
    /\ expected_rate = 5
    /\ slippage_rate = 7
    /\ call.value = <<7>>

\* C6: for either adapter, get_current_rate raises ExchangeError when the
\* protocol reports a zero rate or a zero price, and never returns a zero
\* rate.
C6_ZeroRateRaises ==
    (/\ call.op = "get_current_rate"
     /\ call.calls # <<>>)
    => /\ (call.exchange = "Kyber"
           /\ (expected_rate = 0 \/ slippage_rate = 0))
          => call.outcome = "ExchangeError"
       /\ (call.exchange = "Uniswap" /\ output_price = 0)
          => call.outcome = "ExchangeError"
       /\ call.outcome = "rate" => call.value[1] # 0

\* C7: for a ticker with no address in the adapter's table for the bound
\* network, every public operation ends in False, None or ExchangeError.
C7_AbsentTickerNeverRawError ==
    (/\ call.op # "none"
     /\ ~is_listing_token(call.exchange, call.ticker))
    => \/ call.op = "is_listing_token" /\ call.outcome = "False"
       \/ call.op = "calculate_transaction_costs" /\ call.outcome = "None"
       \/ call.outcome = "ExchangeError"

\* C8: the gas price of Kyber's estimate, and of the transaction Kyber
\* submits, is the smaller of the node's gas price and the protocol's
\* maxGasPrice, so it never exceeds that maximum.
C8_KyberGasPriceCapped ==
    (/\ call.exchange = "Kyber"
     /\ call.op \in {"calculate_transaction_costs", "buy_tokens"}
     /\ call.costs # <<>>)
    => /\ Estimate.gas_price <= maxGasPrice
       /\ Estimate.gas_price <= gasPrice
       /\ Estimate.gas_price \in {gasPrice, maxGasPrice}
       /\ call.tx # <<>> => Sent.gas_price = Estimate.gas_price

C8_Witness ==
    /\ call.exchange = "Kyber"
    /\ call.op = "buy_tokens"
    /\ call.outcome = "sent"
    /\ gasPrice > maxGasPrice
    /\ Sent.gas_price = maxGasPrice

\* C9: an estimate returned by calculate_transaction_costs has gas_price,
\* gas, eth_sold, total and exchange_rate; exchange_rate is what
\* get_current_rate returns in that call, eth_sold is quantity times
\* exchange_rate and total is gas * gas_price + eth_sold.  Kyber with 100
\* tokens, expected rate 5 and slippage rate 7 gives rate 7, eth_sold 700
\* and total 700 + gas * gas_price.
C9_EstimateFullyPopulated ==
    (/\ call.op = "calculate_transaction_costs"
     /\ call.outcome # "None"
     /\ call.outcome # "ExchangeError")
    => /\ call.outcome = "costs"
       /\ is_listing_token(call.exchange, call.ticker)
       /\ call.qty > 0
       /\ Len(call.costs) = 1
       /\ DOMAIN Estimate =
            {"gas_price", "gas", "eth_sold", "total", "exchange_rate"}
       /\ <<Estimate.exchange_rate>> =
            get_current_rate(call.exchange, call.ticker, call.qty).value
       /\ Estimate.eth_sold = (call.qty * Estimate.exchange_rate) \div Unit
       /\ Estimate.gas \in GasEstimates
       /\ Estimate.gas_price \in GasPrices
       /\ Estimate.total = Estimate.gas * Estimate.gas_price
                           + Estimate.eth_sold
       /\ (/\ call.exchange = "Kyber"
           /\ call.qty = 100 * Unit
           /\ expected_rate = 5
           /\ slippage_rate = 7)
          => /\ Estimate.exchange_rate = 7
             /\ Estimate.eth_sold = 700
             /\ Estimate.total = 700 + Estimate.gas * Estimate.gas_price

C9_Witness ==
    /\ call.op = "calculate_transaction_costs"
    /\ call.exchange = "Kyber"
    /\ call.qty = 100 * Unit
    /\ expected_rate = 5
    /\ slippage_rate = 7
    /\ call.outcome = "costs"
    /\ Estimate.eth_sold = 700
    /\ Estimate.gas = 2
    /\ Estimate.gas_price = 2
    /\ Estimate.total = 704

====
